---- MODULE Spec2Model ----
(***************************************************************************)
(* payloadtool.py: the pbzx chunked stream (pbzx_decompressor) and the     *)
(* archive walk over it (readheader, savedata, processpayload).            *)
(*                                                                         *)
(* Bytes are integers 0..255 and byte strings are sequences of them.       *)
(* Python's None is the empty tuple, a value v that may be None is <<v>>.  *)
(* A call that can raise returns a record whose exc field names the        *)
(* exception ("" when it returned normally).                               *)
(***************************************************************************)
EXTENDS Integers, Sequences, FiniteSets, TLC

None == <<>>
Some(x) == <<x>>

Min(a, b) == IF a < b THEN a ELSE b

(***************************************************************************)
(* Bounds of the model.                                                    *)
(***************************************************************************)
\* stream specification: how many chunks a raw input holds, and how long one is
MaxChunks == 3
MaxChunkLen == 2
\* the largest size asked of one read or seek call
MaxReq == 3
\* bytes cut from the end of an input to truncate it
MaxCut == 4
\* walk specification: entries of an archive, declared payload size of an
\* entry, empty chunks put between the chunks that hold data
MaxEntries == 2
MaxSize == 5
MaxEmpty == 1

(***************************************************************************)
(* struct.pack / struct.unpack, big-endian.                                *)
(***************************************************************************)
RECURSIVE unpack_be(_)
unpack_be(s) ==
    IF s = <<>> THEN 0
    ELSE unpack_be(SubSeq(s, 1, Len(s) - 1)) * 256 + s[Len(s)]

\* the values of the model stay below 2^31, the higher bytes are zero
pack_be(v, n) ==
    [i \in 1..n |-> IF n - i >= 4 THEN 0 ELSE (v \div (256 ^ (n - i))) % 256]

\* format 'h': two's complement, 16 bits
unpack_signed16(s) ==
    LET signed(v) == IF v >= 32768 THEN v - 65536 ELSE v IN signed(unpack_be(s))

(***************************************************************************)
(* The raw input file object: read(n) returns at most n bytes from the     *)
(* position and fewer only at the end of the file.                         *)
(***************************************************************************)
fh_read(rawbytes, pos, n) ==
    SubSeq(rawbytes, pos + 1, Min(pos + n, Len(rawbytes)))

(***************************************************************************)
(* lzma.decompress.  The codec is a library; what the program relies on is *)
(* kept: a stream is self-delimiting (magic, length, body, end marker), a  *)
(* stream cut short raises LZMAError, data that is no stream raises        *)
(* LZMAError, and bytes after a complete stream are read as further        *)
(* streams and ignored when they are none.  Body bytes are stored shifted  *)
(* so that compressed and plain bytes differ.                              *)
(***************************************************************************)
xz_byte(b) == (b + 101) % 256
unxz_byte(b) == (b + 155) % 256

xz_compress(data) ==
    <<253, Len(data)>> \o [i \in 1..Len(data) |-> xz_byte(data[i])] \o <<90>>

\* LZMADecompressor.decompress on one buffer: status "eof" (a whole stream,
\* unused holds what follows it), "more" (input ended inside the stream) or
\* "error" (not a stream)
xz_stream(x) ==
    IF Len(x) = 0 THEN [status |-> "more", data |-> <<>>, unused |-> <<>>]
    ELSE IF x[1] # 253 THEN [status |-> "error", data |-> <<>>, unused |-> <<>>]
    ELSE IF Len(x) < 2 \/ Len(x) < x[2] + 3
         THEN [status |-> "more", data |-> <<>>, unused |-> <<>>]
    ELSE IF x[x[2] + 3] # 90 THEN [status |-> "error", data |-> <<>>, unused |-> <<>>]
    ELSE [status |-> "eof",
          data |-> [i \in 1..x[2] |-> unxz_byte(x[i + 2])],
          unused |-> SubSeq(x, x[2] + 4, Len(x))]

\* lzma.decompress: the loop over the streams of the data
RECURSIVE lzma_loop(_, _, _)
lzma_loop(x, results, first) ==
    LET step(s) ==
            IF s.status = "error"
            THEN IF first THEN [exc |-> "LZMAError", data |-> <<>>]
                 ELSE [exc |-> "", data |-> results]
            ELSE IF s.status = "more" THEN [exc |-> "LZMAError", data |-> <<>>]
            ELSE IF s.unused = <<>> THEN [exc |-> "", data |-> results \o s.data]
            ELSE lzma_loop(s.unused, results \o s.data, FALSE)
    IN  step(xz_stream(x))

lzma_decompress(x) == lzma_loop(x, <<>>, TRUE)

(***************************************************************************)
(* class pbzx_decompressor.  A cursor c is the object's state:             *)
(* c.buffer (None or the held chunk), c.bufferpos (None or the offset) and *)
(* c.pos, the position of self.fh in the raw input.  c.log is the record   *)
(* of the calls of next() that read from the raw input: where self.fh      *)
(* stood and whether a buffer was held at the time.  c.turns counts the     *)
(* turns of the while loops of read and seek (the times the loop condition *)
(* size > 0 held) since the caller set it to 0.                            *)
(*                                                                         *)
(* A local variable of the code that holds the result of a call is the     *)
(* parameter of a local operator applied to that call: chunkhdr, xzdata    *)
(* and so on below.                                                        *)
(***************************************************************************)
\* a constructor that goes on to read the first chunk
pbzx_init_eager(rawbytes) ==
    LET unpack(filehdr) ==
            IF Len(filehdr) # 12
            THEN [exc |-> "struct.error", pos |-> Len(filehdr)]
            ELSE IF SubSeq(filehdr, 1, 4) # <<112, 98, 122, 120>>
            THEN [exc |-> "Exception", pos |-> 12]
            ELSE [exc |-> "", pos |-> Min(12 + 16, Len(rawbytes))]
    IN  unpack(fh_read(rawbytes, 0, 12))

\* __init__: the 12-byte file header
pbzx_init(rawbytes) ==
    LET unpack(filehdr) ==
            IF Len(filehdr) # 12
            THEN [exc |-> "struct.error", pos |-> Len(filehdr)]
            ELSE IF SubSeq(filehdr, 1, 4) # <<112, 98, 122, 120>>
            THEN [exc |-> "Exception", pos |-> 12]
            ELSE [exc |-> "", pos |-> 12]
    IN  unpack(fh_read(rawbytes, 0, 12))

\* next(): read and decompress the next chunk; ret is None at the end of input
next(rawbytes, pos) ==
    LET decompressed(d, endpos) ==
            [exc |-> d.exc, ret |-> IF d.exc = "" THEN Some(d.data) ELSE None,
             pos |-> endpos]
        compressed(xzdata, p1) ==
            decompressed(lzma_decompress(xzdata), p1 + Len(xzdata))
        header(chunkhdr) ==
            IF Len(chunkhdr) = 0 THEN [exc |-> "", ret |-> None, pos |-> pos]
            ELSE IF Len(chunkhdr) # 16
            THEN [exc |-> "struct.error", ret |-> None, pos |-> pos + Len(chunkhdr)]
            ELSE compressed(fh_read(rawbytes, pos + 16, unpack_be(SubSeq(chunkhdr, 9, 16))),
                            pos + 16)
    IN  header(fh_read(rawbytes, pos, 16))

\* the log after a call of next() that returned n
logged(c, n) ==
    IF n.pos > c.pos THEN Append(c.log, [pos |-> c.pos, held |-> c.buffer # None])
    ELSE c.log

\* the assignments of lines 140-141 (163-164) after next() returned n
assigned(c, n) ==
    IF n.exc # ""
    THEN [exc |-> n.exc, c |-> [c EXCEPT !.pos = n.pos, !.log = logged(c, n)]]
    ELSE [exc |-> "", c |-> [c EXCEPT !.buffer = n.ret, !.bufferpos = Some(0),
                                      !.pos = n.pos, !.log = logged(c, n)]]

\* one more turn of a while loop
turn(c) == [c EXCEPT !.turns = @ + 1]

\* a fetch on every turn of the loop, whether a buffer is held or not
fetch_always(rawbytes, c) == assigned(c, next(rawbytes, c.pos))

\* lines 139-141 of read and 162-164 of seek: fetch when no buffer is held
fetch(rawbytes, c) ==
    IF c.buffer = None THEN assigned(c, next(rawbytes, c.pos))
    ELSE [exc |-> "", c |-> c]

\* the cursor after the held buffer was consumed up to endpos (lines 147-151
\* of read, 168-171 of seek)
advance(c, endpos) ==
    IF endpos = Len(c.buffer[1])
    THEN [c EXCEPT !.buffer = None, !.bufferpos = None]
    ELSE [c EXCEPT !.bufferpos = Some(endpos)]

\* a read loop that keeps a buffer it has used up and replaces it only when
\* more bytes are asked for
RECURSIVE read_lazy(_, _, _, _)
read_lazy(rawbytes, c, size, data) ==
    LET take(c1, want) ==
            read_lazy(rawbytes, [c1 EXCEPT !.bufferpos = Some(c1.bufferpos[1] + want)],
                      size - want,
                      data \o SubSeq(c1.buffer[1], c1.bufferpos[1] + 1,
                                     c1.bufferpos[1] + want))
        body(f) ==
            IF f.exc # "" THEN [exc |-> f.exc, data |-> <<>>, c |-> f.c]
            ELSE IF f.c.buffer = None THEN [exc |-> "", data |-> data, c |-> f.c]
            ELSE take(f.c, Min(size, Len(f.c.buffer[1]) - f.c.bufferpos[1]))
        usedup == c.buffer # None /\ c.bufferpos[1] = Len(c.buffer[1])
    IN  IF size <= 0 THEN [exc |-> "", data |-> data, c |-> c]
        ELSE IF c.buffer = None \/ usedup
        THEN body(assigned([c EXCEPT !.buffer = None], next(rawbytes, c.pos)))
        ELSE body([exc |-> "", c |-> c])

\* read(size): the while loop, data the bytes gathered so far
RECURSIVE read_loop(_, _, _, _)
read_loop(rawbytes, c, size, data) ==
    LET take(c1, want) ==
            read_loop(rawbytes, advance(c1, c1.bufferpos[1] + want), size - want,
                      data \o SubSeq(c1.buffer[1], c1.bufferpos[1] + 1,
                                     c1.bufferpos[1] + want))
        body(f) ==
            IF f.exc # "" THEN [exc |-> f.exc, data |-> <<>>, c |-> f.c]
            ELSE IF f.c.buffer = None THEN [exc |-> "", data |-> data, c |-> f.c]
            ELSE take(f.c, Min(size, Len(f.c.buffer[1]) - f.c.bufferpos[1]))
    IN  IF size <= 0 THEN [exc |-> "", data |-> data, c |-> c]
        ELSE body(fetch(rawbytes, turn(c)))

\* a read that does not loop: it stops at the end of the held chunk
read_noloop(rawbytes, c, size) ==
    LET take(c1, want) ==
            [exc |-> "", c |-> advance(c1, c1.bufferpos[1] + want),
             data |-> SubSeq(c1.buffer[1], c1.bufferpos[1] + 1, c1.bufferpos[1] + want)]
        body(f) ==
            IF f.exc # "" THEN [exc |-> f.exc, data |-> <<>>, c |-> f.c]
            ELSE IF f.c.buffer = None THEN [exc |-> "", data |-> <<>>, c |-> f.c]
            ELSE take(f.c, Min(size, Len(f.c.buffer[1]) - f.c.bufferpos[1]))
    IN  IF size <= 0 THEN [exc |-> "", data |-> <<>>, c |-> c]
        ELSE body(fetch(rawbytes, c))

read(rawbytes, c, size) == read_loop(rawbytes, c, size, <<>>)

\* seek(size, whence): the while loop
RECURSIVE seek_loop(_, _, _)
seek_loop(rawbytes, c, size) ==
    LET skip(c1, want) ==
            seek_loop(rawbytes, advance(c1, c1.bufferpos[1] + want), size - want)
        body(f) ==
            IF f.exc # "" THEN [exc |-> f.exc, c |-> f.c]
            ELSE IF f.c.buffer = None THEN [exc |-> "", c |-> f.c]
            ELSE skip(f.c, Min(size, Len(f.c.buffer[1]) - f.c.bufferpos[1]))
    IN  IF size <= 0 THEN [exc |-> "", c |-> c]
        ELSE body(fetch(rawbytes, turn(c)))

\* a seek that does not loop: it stops at the end of the held chunk
seek_noloop(rawbytes, c, size, whence) ==
    LET body(f) ==
            IF f.exc # "" \/ f.c.buffer = None THEN f
            ELSE [exc |-> "",
                  c |-> advance(f.c, f.c.bufferpos[1]
                                     + Min(size, Len(f.c.buffer[1]) - f.c.bufferpos[1]))]
    IN  IF whence # 1 \/ size < 0 THEN [exc |-> "Exception", c |-> c]
        ELSE IF size = 0 THEN [exc |-> "", c |-> c]
        ELSE body(fetch(rawbytes, c))

\* a seek that looks at whence and size only after its loop
seek_latecheck(rawbytes, c, size, whence) ==
    LET checked(r) ==
            IF r.exc = "" /\ (whence # 1 \/ size < 0) THEN [exc |-> "Exception", c |-> r.c]
            ELSE r
    IN  checked(seek_loop(rawbytes, c, size))

seek(rawbytes, c, size, whence) ==
    IF whence # 1 \/ size < 0 THEN [exc |-> "Exception", c |-> c]
    ELSE seek_loop(rawbytes, c, size)

(***************************************************************************)
(* bytes.decode('utf-8'): the text is the sequence of code points.  One-   *)
(* and two-byte forms are decoded; the inputs of the model hold no byte    *)
(* that starts a longer form.                                              *)
(***************************************************************************)
RECURSIVE utf8_loop(_, _)
utf8_loop(b, text) ==
    IF b = <<>> THEN [exc |-> "", text |-> text]
    ELSE IF b[1] < 128 THEN utf8_loop(Tail(b), Append(text, b[1]))
    ELSE IF /\ b[1] >= 194 /\ b[1] <= 223
            /\ Len(b) >= 2 /\ b[2] >= 128 /\ b[2] <= 191
         THEN utf8_loop(SubSeq(b, 3, Len(b)),
                        Append(text, (b[1] - 192) * 64 + (b[2] - 128)))
    ELSE [exc |-> "UnicodeDecodeError", text |-> <<>>]

utf8_decode(b) == utf8_loop(b, <<>>)

(***************************************************************************)
(* readheader(fh): hdr is None at the end of the stream.                   *)
(***************************************************************************)
\* struct.unpack(">BBQQLHhhH", hdr) on exactly 30 bytes
unpack_header(h) ==
    [unk1 |-> h[1], type |-> h[2],
     filesize |-> unpack_be(SubSeq(h, 3, 10)),
     timestamp |-> unpack_be(SubSeq(h, 11, 18)),
     attr |-> unpack_be(SubSeq(h, 19, 22)),
     namelen |-> unpack_be(SubSeq(h, 23, 24)),
     uid |-> unpack_signed16(SubSeq(h, 25, 26)),
     gid |-> unpack_signed16(SubSeq(h, 27, 28)),
     filemode |-> unpack_be(SubSeq(h, 29, 30))]

\* the Header object o with its name attribute set (line 37)
with_name(o, text) ==
    [unk1 |-> o.unk1, type |-> o.type, filesize |-> o.filesize,
     timestamp |-> o.timestamp, attr |-> o.attr, namelen |-> o.namelen,
     uid |-> o.uid, gid |-> o.gid, filemode |-> o.filemode, name |-> text]

\* lines 37-39: read and decode the name
readname(rawbytes, c, o) ==
    LET named(c2, d) ==
            IF d.exc # "" THEN [exc |-> d.exc, hdr |-> None, c |-> c2]
            ELSE [exc |-> "", hdr |-> Some(with_name(o, d.text)), c |-> c2]
        name(r2) ==
            IF r2.exc # "" THEN [exc |-> r2.exc, hdr |-> None, c |-> r2.c]
            ELSE named(r2.c, utf8_decode(r2.data))
    IN  name(read(rawbytes, c, o.namelen))

\* a readheader that takes any short read for the end of the stream
readheader_shortend(rawbytes, c) ==
    LET header(r1) ==
            IF r1.exc # "" THEN [exc |-> r1.exc, hdr |-> None, c |-> r1.c]
            ELSE IF Len(r1.data) < 30 THEN [exc |-> "", hdr |-> None, c |-> r1.c]
            ELSE readname(rawbytes, r1.c, unpack_header(r1.data))
    IN  header(read(rawbytes, c, 30))

\* a readheader that refuses a header whose first byte is not 0x10
readheader_strictmarker(rawbytes, c) ==
    LET header(r1) ==
            IF r1.exc # "" THEN [exc |-> r1.exc, hdr |-> None, c |-> r1.c]
            ELSE IF Len(r1.data) = 0 THEN [exc |-> "", hdr |-> None, c |-> r1.c]
            ELSE IF Len(r1.data) # 30
            THEN [exc |-> "struct.error", hdr |-> None, c |-> r1.c]
            ELSE IF r1.data[1] # 16 THEN [exc |-> "Exception", hdr |-> None, c |-> r1.c]
            ELSE readname(rawbytes, r1.c, unpack_header(r1.data))
    IN  header(read(rawbytes, c, 30))

readheader(rawbytes, c) ==
    LET header(r1) ==
            IF r1.exc # "" THEN [exc |-> r1.exc, hdr |-> None, c |-> r1.c]
            ELSE IF Len(r1.data) = 0 THEN [exc |-> "", hdr |-> None, c |-> r1.c]
            ELSE IF Len(r1.data) # 30
            THEN [exc |-> "struct.error", hdr |-> None, c |-> r1.c]
            ELSE readname(rawbytes, r1.c, unpack_header(r1.data))
    IN  header(read(rawbytes, c, 30))

(***************************************************************************)
(* savedata(name, fh, size): written is what the output file holds.  The   *)
(* file is opened before the loop, so it exists (with what was written)    *)
(* also when a read raises.  The source copies in pieces of 0x100000       *)
(* bytes; the model scales the piece down to CopyPiece so that payloads    *)
(* below, at and above the piece are all enumerable.                       *)
(***************************************************************************)
CopyPiece == 2

RECURSIVE savedata_loop(_, _, _, _)
savedata_loop(rawbytes, c, size, written) ==
    LET copy(wanted, r) ==
            IF r.exc # "" THEN [exc |-> r.exc, c |-> r.c, written |-> written]
            ELSE IF Len(r.data) = 0 THEN [exc |-> "", c |-> r.c, written |-> written]
            ELSE savedata_loop(rawbytes, r.c, size - wanted, written \o r.data)
    IN  IF size <= 0 THEN [exc |-> "", c |-> c, written |-> written]
        ELSE copy(Min(CopyPiece, size), read(rawbytes, c, Min(CopyPiece, size)))

\* a savedata that copies one piece and does not loop
savedata_onepiece(rawbytes, c, size) ==
    LET copy(r) == [exc |-> r.exc, c |-> r.c, written |-> r.data]
    IN  IF size <= 0 THEN [exc |-> "", c |-> c, written |-> <<>>]
        ELSE copy(read(rawbytes, c, Min(CopyPiece, size)))

savedata(rawbytes, c, size) == savedata_loop(rawbytes, c, size, <<>>)

(***************************************************************************)
(* processpayload(fh, args), one step of the loop body at a time.  A sink  *)
(* operation is recorded as [op, name, data, size]: "store" (savedata, data*)
(* the bytes of the file), "link" (createlink, data the target text) and   *)
(* "skip" (fh.seek over the payload).  The file system under the output    *)
(* directory is fs: "ok" (makedirs, open, write and os.symlink succeed) or *)
(* "readonly" (makedirs or open of savedata, and makedirs or os.symlink of *)
(* createlink, raise OSError).                                             *)
(***************************************************************************)
entrytypes == [t \in {1, 2, 3} |-> CASE t = 1 -> "file" [] t = 2 -> "dir" [] t = 3 -> "link"]

entryname(typ) ==
    IF typ \in DOMAIN entrytypes THEN [text |-> entrytypes[typ], code |-> typ]
    ELSE [text |-> "?", code |-> typ]

\* a symlink branch that stores the payload as a file of that content
dispatch_link_asfile(rawbytes, c, h, output, fs) ==
    LET saved(r) ==
            [exc |-> r.exc, c |-> r.c,
             ops |-> IF output
                     THEN <<[op |-> "store", name |-> h.name, data |-> r.written,
                             size |-> h.filesize]>>
                     ELSE <<>>,
             suffix |-> None]
    IN  saved(savedata(rawbytes, c, h.filesize))

\* lines 94-98: a symlink entry
dispatch_link(rawbytes, c, h, output, fs) ==
    LET decoded(c1, d) ==
            IF d.exc # "" THEN [exc |-> d.exc, c |-> c1, ops |-> <<>>, suffix |-> None]
            ELSE IF output /\ fs # "ok"
            THEN [exc |-> "OSError", c |-> c1, ops |-> <<>>, suffix |-> Some(d.text)]
            ELSE [exc |-> "", c |-> c1,
                  ops |-> IF output
                          THEN <<[op |-> "link", name |-> h.name, data |-> d.text,
                                  size |-> h.filesize]>>
                          ELSE <<>>,
                  suffix |-> Some(d.text)]
        link(r) ==
            IF r.exc # "" THEN [exc |-> r.exc, c |-> r.c, ops |-> <<>>, suffix |-> None]
            ELSE decoded(r.c, utf8_decode(r.data))
    IN  link(read(rawbytes, c, h.filesize))

\* lines 99-100: a file entry when an output directory is given
dispatch_file(rawbytes, c, h, fs) ==
    LET saved(r) ==
            [exc |-> r.exc, c |-> r.c,
             ops |-> <<[op |-> "store", name |-> h.name, data |-> r.written,
                        size |-> h.filesize]>>,
             suffix |-> None]
    IN  IF fs # "ok" THEN [exc |-> "OSError", c |-> c, ops |-> <<>>, suffix |-> None]
        ELSE saved(savedata(rawbytes, c, h.filesize))

\* lines 101-102: everything else
dispatch_skip(rawbytes, c, h) ==
    LET skipped(r) ==
            [exc |-> r.exc, c |-> r.c,
             ops |-> IF r.exc = ""
                     THEN <<[op |-> "skip", name |-> h.name, data |-> <<>>,
                             size |-> h.filesize]>>
                     ELSE <<>>,
             suffix |-> None]
    IN  skipped(seek(rawbytes, c, h.filesize, 1))

dispatch(rawbytes, c, h, output, fs) ==
    IF h.type = 3 THEN dispatch_link(rawbytes, c, h, output, fs)
    ELSE IF h.type = 1 /\ output THEN dispatch_file(rawbytes, c, h, fs)
    ELSE dispatch_skip(rawbytes, c, h)

\* lines 104-107: what --list prints for an entry
listing(h, suffix, list) ==
    IF ~list THEN <<>>
    ELSE <<[line |-> "entry", kind |-> entryname(h.type), filemode |-> h.filemode,
            attr |-> h.attr, uid |-> h.uid, gid |-> h.gid, filesize |-> h.filesize,
            timestamp |-> h.timestamp, name |-> h.name, suffix |-> suffix]>>
         \o (IF h.unk1 # 16 THEN <<[line |-> "NOTE", unk1 |-> h.unk1]>> ELSE <<>>)

\* line 108: count[hdr.type] += 1 on the dict {1:0, 2:0, 3:0}
count_entry(cnt, typ) ==
    IF typ \in DOMAIN cnt
    THEN [exc |-> "", count |-> [cnt EXCEPT ![typ] = @ + 1]]
    ELSE [exc |-> "KeyError", count |-> cnt]

\* line 109
tally_line(cnt) ==
    [line |-> "tally", files |-> cnt[1], dirs |-> cnt[2], links |-> cnt[3]]

\* the whole of processpayload: the loop run to its end, st holding count, the
\* sink operations and the printed lines so far, and the cursors at which
\* readheader was called and returned a header
RECURSIVE processpayload_loop(_, _, _, _, _, _)
processpayload_loop(rawbytes, c, output, list, fs, st) ==
    LET counted(h, d, r) ==
            IF r.exc # ""
            THEN [exc |-> r.exc, c |-> d.c, count |-> st.count,
                  sinks |-> st.sinks \o d.ops,
                  out |-> st.out \o listing(h, d.suffix, list),
                  headers |-> Append(st.headers, c)]
            ELSE processpayload_loop(rawbytes, d.c, output, list, fs,
                     [count |-> r.count, sinks |-> st.sinks \o d.ops,
                      out |-> st.out \o listing(h, d.suffix, list),
                      headers |-> Append(st.headers, c)])
        dispatched(h, d) ==
            IF d.exc # ""
            THEN [exc |-> d.exc, c |-> d.c, count |-> st.count,
                  sinks |-> st.sinks \o d.ops, out |-> st.out,
                  headers |-> Append(st.headers, c)]
            ELSE counted(h, d, count_entry(st.count, h.type))
        parsed(r) ==
            IF r.exc # ""
            THEN [exc |-> r.exc, c |-> r.c, count |-> st.count, sinks |-> st.sinks,
                  out |-> st.out, headers |-> st.headers]
            ELSE IF r.hdr = None
            THEN [exc |-> "", c |-> r.c, count |-> st.count, sinks |-> st.sinks,
                  out |-> Append(st.out, tally_line(st.count)), headers |-> st.headers]
            ELSE dispatched(r.hdr[1], dispatch(rawbytes, r.c, r.hdr[1], output, fs))
    IN  parsed(readheader(rawbytes, c))

processpayload(rawbytes, c, output, list, fs) ==
    processpayload_loop(rawbytes, c, output, list, fs,
        [count |-> [t \in {1, 2, 3} |-> 0], sinks |-> <<>>, out |-> <<>>,
         headers |-> <<>>])

(***************************************************************************)
(* Raw inputs.  The file format of the module docstring: 'pbzx', a 64-bit  *)
(* value 0x1000000, then chunks, each preceded by two 64-bit values        *)
(* (expanded size, compressed size).  A chunk list is the list of the      *)
(* decompressed chunks; lie is added to the compressed size the last       *)
(* chunk's header declares, cut bytes are dropped from the end of the      *)
(* file, and badmagic replaces the tag.                                    *)
(***************************************************************************)
pbzx_chunk(data, lie) ==
    LET framed(xz) == pack_be(Len(data), 8) \o pack_be(Len(xz) + lie, 8) \o xz
    IN  framed(xz_compress(data))

\* the concatenation of a list of byte strings, by halves
RECURSIVE Concat(_)
Concat(ss) ==
    LET halves(h) == Concat(SubSeq(ss, 1, h)) \o Concat(SubSeq(ss, h + 1, Len(ss)))
    IN  IF ss = <<>> THEN <<>>
        ELSE IF Len(ss) = 1 THEN ss[1]
        ELSE halves(Len(ss) \div 2)

pbzx_chunks(chunklist, lie) ==
    Concat([j \in 1..Len(chunklist) |->
               pbzx_chunk(chunklist[j], IF j = Len(chunklist) THEN lie ELSE 0)])

pbzx_file(chunklist, dmg) ==
    LET tag == IF dmg.badmagic THEN <<112, 98, 122, 122>> ELSE <<112, 98, 122, 120>>
        cut(whole) == SubSeq(whole, 1, Len(whole) - Min(dmg.cut, Len(whole)))
    IN  cut(tag \o pack_be(16777216, 8) \o pbzx_chunks(chunklist, dmg.lie))

NoDamage == [cut |-> 0, lie |-> 0, badmagic |-> FALSE]

Damages ==
    {NoDamage}
    \cup {[NoDamage EXCEPT !.cut = r] : r \in 1..MaxCut}
    \cup {[NoDamage EXCEPT !.lie = 1], [NoDamage EXCEPT !.badmagic = TRUE]}

\* the logical bytes are all different: byte i of a stream is 96 + i
Plain(n) == [i \in 1..n |-> 96 + i]

RECURSIVE SumTo(_, _)
SumTo(lens, j) == IF j = 0 THEN 0 ELSE SumTo(lens, j - 1) + lens[j]

\* the chunk list that cuts data into chunks of the given lengths
SplitBy(data, lens) ==
    [j \in 1..Len(lens) |-> SubSeq(data, SumTo(lens, j - 1) + 1, SumTo(lens, j))]

ChunkLens == UNION {[1..n -> 0..MaxChunkLen] : n \in 0..MaxChunks}

(***************************************************************************)
(* Archives.  An entry is a 30-byte header, its name and its payload.  The *)
(* name of entry i is a two-byte character and a digit; a link's payload   *)
(* is the start of "a/b/c/", any other payload the start of "ABCDEF".      *)
(***************************************************************************)
Kinds == {1, 2, 3, 4}

entry_name(i) == <<195, 168 + i, 48 + i>>

entry_payload(kind, size) ==
    [j \in 1..size |-> IF kind # 3 THEN 64 + j
                       ELSE IF j % 2 = 0 THEN 47 ELSE 97 + (j \div 2)]

mkentry(e) ==
    <<e.unk1, e.type>> \o pack_be(Len(e.payload), 8) \o pack_be(86400, 8)
        \o pack_be(32, 4) \o pack_be(Len(e.name), 2) \o pack_be(501, 2)
        \o pack_be(65534, 2) \o pack_be(420, 2) \o e.name \o e.payload

Entry(i, kind, size, unk1) ==
    [unk1 |-> unk1, type |-> kind, name |-> entry_name(i),
     payload |-> entry_payload(kind, size)]

\* the archive of n entries: the kinds go round Kinds from k1, the sizes go
\* round 0..MaxSize from s0, and the first entry carries the marker unk1
Archive(n, k1, s0, unk1) ==
    [i \in 1..n |->
        Entry(i, ((k1 + i - 2) % Cardinality(Kinds)) + 1, (s0 + i - 1) % (MaxSize + 1),
              IF i = 1 THEN unk1 ELSE 16)]

ArchiveBytes(arch) == Concat([i \in 1..Len(arch) |-> mkentry(arch[i])])

\* chunks of k bytes each (k = 0: one chunk), with z empty chunks before the
\* first chunk, after it, and at the end
Empties(z) == [i \in 1..z |-> <<>>]

Pieces(data, kk) ==
    [j \in 1..((Len(data) + kk - 1) \div kk) |->
        SubSeq(data, (j - 1) * kk + 1, Min(j * kk, Len(data)))]

ChunksOf(data, k, z) ==
    LET spread(full) ==
            Empties(z) \o <<full[1]>> \o Empties(z) \o Tail(full) \o Empties(z)
    IN  IF Len(data) = 0 THEN Empties(z)
        ELSE spread(Pieces(data, IF k = 0 THEN Len(data) ELSE k))

(***************************************************************************)
(* A scenario is an input of main(): the archive, how many bytes are cut   *)
(* from the end of its byte stream, how the stream is cut into chunks and  *)
(* the damage done to the raw file.  Valid archives are taken under every  *)
(* chunking; truncated streams, damaged files and a deviating marker under *)
(* one chunking each.                                                      *)
(***************************************************************************)
Archives(unk1) ==
    {Archive(n, k1, s0, unk1) : n \in 0..MaxEntries, k1 \in Kinds, s0 \in 0..MaxSize}

Scenario(arch, trunc, k, z, dmg) ==
    [archive |-> arch, trunc |-> trunc, k |-> k, z |-> z, dmg |-> dmg]

Scenarios ==
    {Scenario(a, 0, k, z, NoDamage) :
        a \in Archives(16), k \in 0..MaxChunkLen, z \in 0..MaxEmpty}
    \cup {Scenario(a, t, MaxChunkLen, 0, NoDamage) : a \in Archives(16), t \in 1..MaxCut}
    \cup {Scenario(a, 0, 0, 0, dmg) : a \in Archives(16), dmg \in Damages}
    \cup {Scenario(a, 0, 0, 0, NoDamage) : a \in Archives(17)}

ScenarioStream(sc) ==
    LET cut(b) == SubSeq(b, 1, Len(b) - Min(sc.trunc, Len(b)))
    IN  cut(ArchiveBytes(sc.archive))

(***************************************************************************)
(* State.                                                                  *)
(***************************************************************************)
VARIABLES
    raw,        \* the bytes of the payload file (never written)
    fpos,       \* position of the raw file object self.fh
    buffer,     \* self.buffer
    bufferpos,  \* self.bufferpos
    fetched,    \* the calls of next() that read from the raw input, in order
    pc,         \* "new", "open" (constructed), "failed" (__init__ raised)
    last,       \* the last call a caller made on the stream and what it returned
    chunks,     \* the chunk list raw was built from
    damage,     \* and the damage done to it
    output,     \* args.output is given
    list,       \* args.list
    fsys,       \* the file system under args.output: "ok" or "readonly"
    wpc,        \* processpayload: "header", "dispatch", "count", "done", "raised"
                \* ("idle" when no walk runs)
    hdr,        \* hdr of the loop body, None before the first header
    suffix,     \* the link target kept for the listing
    count,      \* the dict count
    sinks,      \* the sink operations performed, in order
    out,        \* the lines printed, in order
    exc,        \* the exception that ended the walk, "" if none
    archive,    \* the entries the stream was built from
    trunc,      \* and how many bytes were cut from its end
    headers,    \* the logical stream positions at which readheader returned a header
    hstart      \* None, or the logical stream position of the last readheader call

streamvars == <<raw, fpos, buffer, bufferpos, fetched, pc, last, chunks, damage>>
walkvars ==
    <<output, list, fsys, wpc, hdr, suffix, count, sinks, out, exc, archive, trunc, headers,
      hstart>>
vars == <<streamvars, walkvars>>

Cursor ==
    [buffer |-> buffer, bufferpos |-> bufferpos, pos |-> fpos, log |-> fetched,
     turns |-> 0]

\* the object right after a successful __init__
FreshCursor ==
    [buffer |-> None, bufferpos |-> Some(0), pos |-> 12, log |-> <<>>, turns |-> 0]

NoCall == [op |-> "none", size |-> 0, whence |-> 0, exc |-> "", data |-> <<>>,
           turns |-> 0,
           before |-> [buffer |-> None, bufferpos |-> None, pos |-> 0, log |-> <<>>,
                       turns |-> 0]]

\* the decompressed stream the input was built to hold
Logical == Concat(chunks)

\* the logical bytes of those of the chunks lo..hi that end at or before raw
\* position pos (chunk lo starts at raw offset off, with nbytes logical bytes
\* before it); the chunks that do are a prefix, found by halving
RECURSIVE BytesBefore(_, _, _, _, _, _)
BytesBefore(chunklist, lo, hi, off, nbytes, pos) ==
    LET left(mid, end) ==
            IF end > pos THEN BytesBefore(chunklist, lo, mid, off, nbytes, pos)
            ELSE BytesBefore(chunklist, mid + 1, hi, end,
                             nbytes + Len(Concat(SubSeq(chunklist, lo, mid))), pos)
        half(mid) == left(mid, off + Len(pbzx_chunks(SubSeq(chunklist, lo, mid), 0)))
    IN  IF lo > hi THEN nbytes
        ELSE IF lo = hi
        THEN IF off + Len(pbzx_chunk(chunklist[lo], 0)) > pos THEN nbytes
             ELSE nbytes + Len(chunklist[lo])
        ELSE half((lo + hi) \div 2)

\* the number of logical bytes a cursor has behind it: the bytes of the chunks
\* read from the raw input, less what is left of the held buffer
Consumed(c) ==
    BytesBefore(chunks, 1, Len(chunks), 12, 0, c.pos)
        - (IF c.buffer = None THEN 0 ELSE Len(c.buffer[1]) - c.bufferpos[1])

InitStream ==
    \E lens \in ChunkLens, dmg \in Damages :
        /\ chunks = SplitBy(Plain(SumTo(lens, Len(lens))), lens)
        /\ damage = dmg
        /\ raw = pbzx_file(chunks, dmg)
        /\ fpos = 0
        /\ buffer = None
        /\ bufferpos = None
        /\ fetched = <<>>
        /\ pc = "new"
        /\ last = NoCall
        /\ output = FALSE
        /\ list = FALSE
        /\ fsys = "ok"
        /\ wpc = "idle"
        /\ hdr = None
        /\ suffix = None
        /\ count = [t \in {1, 2, 3} |-> 0]
        /\ sinks = <<>>
        /\ out = <<>>
        /\ exc = ""
        /\ archive = <<>>
        /\ trunc = 0
        /\ headers = <<>>
        /\ hstart = None

InitWalk ==
    \E sc \in Scenarios, o \in BOOLEAN, l \in BOOLEAN, f \in {"ok", "readonly"} :
        /\ f = "readonly" => (o /\ sc.trunc = 0 /\ sc.dmg = NoDamage)
        /\ fsys = f
        /\ archive = sc.archive
        /\ trunc = sc.trunc
        /\ chunks = ChunksOf(ScenarioStream(sc), sc.k, sc.z)
        /\ damage = sc.dmg
        /\ raw = pbzx_file(chunks, sc.dmg)
        /\ fpos = 0
        /\ buffer = None
        /\ bufferpos = None
        /\ fetched = <<>>
        /\ pc = "new"
        /\ last = NoCall
        /\ output = o
        /\ list = l
        /\ wpc = "header"
        /\ hdr = None
        /\ suffix = None
        /\ count = [t \in {1, 2, 3} |-> 0]
        /\ sinks = <<>>
        /\ out = <<>>
        /\ exc = ""
        /\ headers = <<>>
        /\ hstart = None

SetCursor(c) ==
    /\ buffer' = c.buffer
    /\ bufferpos' = c.bufferpos
    /\ fpos' = c.pos
    /\ fetched' = c.log

\* pbzx_decompressor(fh)
Constructed(r) ==
    /\ fpos' = r.pos
    /\ pc' = IF r.exc = "" THEN "open" ELSE "failed"
    /\ buffer' = None
    /\ bufferpos' = IF r.exc = "" THEN Some(0) ELSE None
    /\ fetched' = <<>>
    /\ last' = [NoCall EXCEPT !.op = "init", !.exc = r.exc]

Construct ==
    /\ pc = "new"
    /\ Constructed(pbzx_init(raw))
    /\ UNCHANGED <<raw, chunks, damage, walkvars>>

\* a caller's fh.read(size)
Returned(op, size, whence, r, data) ==
    /\ SetCursor(r.c)
    /\ last' = [op |-> op, size |-> size, whence |-> whence, exc |-> r.exc,
                data |-> data, turns |-> r.c.turns, before |-> Cursor]

ReadReturned(size, r) == Returned("read", size, 1, r, r.data)

Read ==
    /\ pc = "open"
    /\ wpc = "idle"
    /\ \E size \in 0..MaxReq : ReadReturned(size, read(raw, Cursor, size))
    /\ UNCHANGED <<raw, pc, chunks, damage, walkvars>>

\* a caller's fh.seek(size, whence)
Seek ==
    /\ pc = "open"
    /\ wpc = "idle"
    /\ \E size \in (-1)..MaxReq, whence \in 0..1 :
        Returned("seek", size, whence, seek(raw, Cursor, size, whence), <<>>)
    /\ UNCHANGED <<raw, pc, chunks, damage, walkvars>>

\* a loop that does not leave at the end of the stream but reads on
HeaderRead_noend(r) ==
    /\ SetCursor(r.c)
    /\ exc' = r.exc
    /\ hdr' = IF r.exc = "" /\ r.hdr # None THEN r.hdr ELSE hdr
    /\ wpc' = IF r.exc # "" THEN "raised"
              ELSE IF r.hdr = None THEN "header" ELSE "dispatch"
    /\ out' = out
    /\ headers' = IF r.exc = "" /\ r.hdr # None
                  THEN Append(headers, Consumed(Cursor)) ELSE headers
    /\ hstart' = Some(Consumed(Cursor))

\* a loop that prints the tally however it is left (as in a finally clause)
HeaderRead_tallyalways(r) ==
    /\ SetCursor(r.c)
    /\ exc' = r.exc
    /\ hdr' = IF r.exc = "" THEN r.hdr ELSE hdr
    /\ wpc' = IF r.exc # "" THEN "raised"
              ELSE IF r.hdr = None THEN "done" ELSE "dispatch"
    /\ out' = IF r.exc # "" \/ r.hdr = None THEN Append(out, tally_line(count)) ELSE out
    /\ headers' = IF r.exc = "" /\ r.hdr # None
                  THEN Append(headers, Consumed(Cursor)) ELSE headers
    /\ hstart' = Some(Consumed(Cursor))

\* lines 90-92 and 109: parse a header; at the end of the stream leave the loop
\* and print the tally
HeaderRead(r) ==
    /\ SetCursor(r.c)
    /\ exc' = r.exc
    /\ hdr' = IF r.exc = "" THEN r.hdr ELSE hdr
    /\ wpc' = IF r.exc # "" THEN "raised"
              ELSE IF r.hdr = None THEN "done" ELSE "dispatch"
    /\ out' = IF r.exc = "" /\ r.hdr = None THEN Append(out, tally_line(count)) ELSE out
    /\ headers' = IF r.exc = "" /\ r.hdr # None
                  THEN Append(headers, Consumed(Cursor)) ELSE headers
    /\ hstart' = Some(Consumed(Cursor))

ReadHeader ==
    /\ pc = "open"
    /\ wpc = "header"
    /\ HeaderRead(readheader(raw, Cursor))
    /\ UNCHANGED <<raw, pc, last, chunks, damage, output, list, fsys, suffix, count,
                   sinks, archive, trunc>>

\* lines 93-102: hand the payload to the sink of the entry's kind
Dispatched(r) ==
    /\ SetCursor(r.c)
    /\ sinks' = sinks \o r.ops
    /\ suffix' = r.suffix
    /\ exc' = r.exc
    /\ wpc' = IF r.exc # "" THEN "raised" ELSE "count"

Dispatch ==
    /\ pc = "open"
    /\ wpc = "dispatch"
    /\ Dispatched(dispatch(raw, Cursor, hdr[1], output, fsys))
    /\ UNCHANGED <<raw, pc, last, chunks, damage, output, list, fsys, hdr, count, out,
                   archive, trunc, headers, hstart>>

DispatchLink == hdr # None /\ hdr[1].type = 3 /\ Dispatch
DispatchFile == hdr # None /\ hdr[1].type = 1 /\ output /\ Dispatch
DispatchSkip == hdr # None /\ hdr[1].type # 3 /\ ~(hdr[1].type = 1 /\ output) /\ Dispatch

\* lines 104-108: list the entry and count it
Counted(r) ==
    /\ out' = out \o listing(hdr[1], suffix, list)
    /\ count' = r.count
    /\ exc' = r.exc
    /\ wpc' = IF r.exc # "" THEN "raised" ELSE "header"

Count ==
    /\ pc = "open"
    /\ wpc = "count"
    /\ Counted(count_entry(count, hdr[1].type))
    /\ UNCHANGED <<streamvars, output, list, fsys, hdr, suffix, sinks, archive, trunc,
                   headers, hstart>>

NextStream == Construct \/ Read \/ Seek

SpecStream == InitStream /\ [][NextStream]_vars

NextWalk == Construct \/ ReadHeader \/ DispatchLink \/ DispatchFile \/ DispatchSkip \/ Count

SpecWalk == InitWalk /\ [][NextWalk]_vars

\* main() under its scheduling: the program is sequential and a step that can
\* be taken is taken.  A caller of read and seek (no walk running) may call
\* them for ever; the walk is run to its end.
InitLive == InitStream \/ InitWalk

NextLive ==
    \/ Construct \/ Read \/ Seek
    \/ ReadHeader \/ DispatchLink \/ DispatchFile \/ DispatchSkip \/ Count

\* the walk has a step to take: main() is constructing the stream or
\* processpayload is at a point of its loop
Running ==
    /\ wpc # "idle"
    /\ pc = "new" \/ (pc = "open" /\ wpc \in {"header", "dispatch", "count"})

\* a step of the walk: from such a point the program moves to its next one.
\* The first disjunct is one such step spelled out in full (it is implied by
\* the second), so that whether the action is enabled is decided by Running
\* alone.
WalkStep ==
    /\ Running
    /\ \/ /\ pc' = (IF pc = "new" THEN "failed" ELSE pc)
          /\ wpc' = (IF pc = "new" THEN wpc ELSE "raised")
          /\ UNCHANGED <<raw, fpos, buffer, bufferpos, fetched, last, chunks, damage,
                         output, list, fsys, hdr, suffix, count, sinks, out, exc,
                         archive, trunc, headers, hstart>>
       \/ <<pc, wpc>>' # <<pc, wpc>>

SpecLive == InitLive /\ [][NextLive]_vars /\ WF_vars(WalkStep)

(***************************************************************************)
(* Properties of the stream (SpecStream).                                  *)
(***************************************************************************)
Remaining(c) == Len(Logical) - Consumed(c)

\* C1: on a well-formed input, read(n) returns without error exactly the next
\* min(n, R) bytes of the concatenation of the decompressed chunks, R being the
\* logical bytes not yet consumed, and leaves the cursor that many bytes on:
\* fewer than n bytes come back only when the chunks are exhausted.
C1_ReadReturnsNextBytes ==
    (last.op = "read" /\ damage = NoDamage) =>
        /\ last.exc = ""
        /\ last.data = SubSeq(Logical, Consumed(last.before) + 1,
                              Consumed(last.before)
                                  + Min(last.size, Remaining(last.before)))
        /\ Consumed(Cursor) = Consumed(last.before) + Len(last.data)

\* a read of three bytes, from the start, that gathers them from three chunks
\* of which the middle one decompresses to nothing
C1_Witness ==
    /\ last.op = "read" /\ damage = NoDamage /\ last.size = 3
    /\ last.before.pos = 12
    /\ Len(chunks) = 3 /\ Len(chunks[1]) = 1 /\ chunks[2] = <<>> /\ Len(chunks[3]) = 2
    /\ last.data = Logical

\* C2: seek(n, 1) with n >= 0 leaves the cursor (buffer, offset, raw position)
\* exactly where read(n) from the same state leaves it, after as many turns of
\* its loop, and fails exactly when that read fails; on a well-formed input it returns without error having
\* advanced the logical position by min(n, R).
C2_SeekIsReadDiscarded ==
    (last.op = "seek" /\ last.whence = 1 /\ last.size >= 0) =>
        /\ Cursor = [read(raw, last.before, last.size).c EXCEPT !.turns = 0]
        /\ last.turns = read(raw, last.before, last.size).c.turns
        /\ last.exc = read(raw, last.before, last.size).exc
        /\ damage = NoDamage =>
            /\ last.exc = ""
            /\ Consumed(Cursor)
                = Consumed(last.before) + Min(last.size, Remaining(last.before))

\* a seek of three bytes that starts inside a held chunk and goes over an
\* empty chunk into the third
C2_Witness ==
    /\ last.op = "seek" /\ last.whence = 1 /\ last.size = 3 /\ damage = NoDamage
    /\ last.before.buffer # None /\ last.before.bufferpos = Some(1)
    /\ Len(chunks) = 3 /\ Len(chunks[1]) = 2 /\ chunks[2] = <<>> /\ Len(chunks[3]) = 2
    /\ Consumed(Cursor) = 4

(***************************************************************************)
(* Properties of the walk (SpecWalk).                                      *)
(***************************************************************************)
Ended == pc = "open" /\ wpc \in {"done", "raised"}

\* the input is a well-formed raw file (whatever its stream holds)
WellFormed == damage = NoDamage

\* a valid archive: a well-formed file whose every header, name and payload is whole
Valid == WellFormed /\ trunc = 0

\* the loop body is at work on the entry of hdr: its header was the last one read
InEntry ==
    /\ pc = "open" /\ hdr # None /\ headers # <<>>
    /\ hstart = Some(headers[Len(headers)])

\* where the name and the payload of the entry of hdr start in the stream
NameStart == headers[Len(headers)] + 30
PayloadStart == NameStart + hdr[1].namelen

\* what the walk has done when it has ended
Outcome == [exc |-> exc, count |-> count, sinks |-> sinks, out |-> out]

\* what processpayload does on the same stream held in one chunk
OneChunkOutcome ==
    LET outcome(r) == [exc |-> r.exc, count |-> r.count, sinks |-> r.sinks, out |-> r.out]
    IN  outcome(processpayload(pbzx_file(ChunksOf(Logical, 0, 0), NoDamage),
                               FreshCursor, output, list, fsys))

\* C3: however a stream is cut into chunks, the walk performs the sink
\* operations, prints the lines and ends with the tally (or the error) that
\* it does on the same stream held in one chunk.
C3_ChunkBoundaryIndependence ==
    (Ended /\ WellFormed) => Outcome = OneChunkOutcome

\* a completed walk over many small chunks, the first one empty, that stored a
\* file and skipped a directory
C3_Witness ==
    /\ Ended /\ WellFormed /\ wpc = "done" /\ output
    /\ Len(chunks) > 30 /\ chunks[1] = <<>>
    /\ Len(sinks) = 2 /\ sinks[1].op = "store" /\ sinks[1].size = MaxSize
    /\ sinks[2].op = "skip"

\* C4: with an output directory that can be written, a file entry of declared
\* size S whose S payload bytes are in the stream is stored as exactly those S
\* bytes, in order, and the stream is left exactly S bytes after the name; the
\* walk does not fail.
C4_FileRoundTrip ==
    (/\ InEntry /\ WellFormed /\ output /\ fsys = "ok" /\ hdr[1].type = 1
     /\ PayloadStart + hdr[1].filesize <= Len(Logical)
     /\ wpc # "dispatch") =>
        /\ wpc \in {"count", "header"}
        /\ sinks # <<>>
        /\ sinks[Len(sinks)]
            = [op |-> "store", name |-> hdr[1].name, size |-> hdr[1].filesize,
               data |-> SubSeq(Logical, PayloadStart + 1, PayloadStart + hdr[1].filesize)]
        /\ Consumed(Cursor) = PayloadStart + hdr[1].filesize

\* a stored file larger than the copy piece whose payload came from several chunks
C4_Witness ==
    /\ InEntry /\ WellFormed /\ output /\ fsys = "ok" /\ hdr[1].type = 1 /\ wpc = "count"
    /\ hdr[1].filesize > CopyPiece
    /\ Len(chunks) > 30
    /\ Len(sinks[Len(sinks)].data) = hdr[1].filesize

\* C5 as stated: for every valid archive (and sinks that work) the walk ends
\* with the tally summing to the number of headers parsed and with no logical
\* byte left unread.
C5_TallyAndExhaustion ==
    (Ended /\ Valid /\ fsys = "ok") =>
        /\ count[1] + count[2] + count[3] = Len(headers)
        /\ Consumed(Cursor) = Len(Logical)

\* C6 as stated: the walk of a valid archive never stops on an entry whose kind
\* is not 1, 2 or 3.
C6_UnknownKindGoesOn ==
    (InEntry /\ Valid /\ hdr[1].type \notin {1, 2, 3}) => wpc # "raised"

\* C7: when readheader finds fewer than 30 but more than zero bytes the walk
\* ends with an error and prints no tally; the walk ends normally only when
\* readheader found zero bytes.
C7_TruncatedHeaderIsFatal ==
    (pc = "open" /\ WellFormed /\ hstart # None) =>
        /\ (Len(Logical) - hstart[1] \in 1..29) =>
            /\ wpc = "raised" /\ exc = "struct.error"
            /\ \A i \in 1..Len(out) : out[i].line # "tally"
        /\ wpc = "done" => Len(Logical) = hstart[1]

\* the stream ends 29 bytes into the header that follows a complete entry
C7_Witness ==
    /\ pc = "open" /\ WellFormed /\ hstart # None
    /\ Len(Logical) - hstart[1] = 29
    /\ Len(headers) = 1 /\ wpc = "raised"

\* C8 as stated: readheader returns no entry whose name the stream could not
\* supply in full.
C8_TruncatedNameIsFatal ==
    (InEntry /\ WellFormed) => NameStart + hdr[1].namelen <= Len(Logical)

\* C9 as stated: the walk does not go past an entry (to count it) whose payload
\* the stream could not supply in full.
C9_TruncatedPayloadIsFatal ==
    (InEntry /\ WellFormed /\ PayloadStart <= Len(Logical) /\ wpc \in {"count", "header"})
        => PayloadStart + hdr[1].filesize <= Len(Logical)

\* the last chunk header of the file is whole and declares more compressed
\* bytes than the file holds after it
ShortChunk ==
    /\ chunks # <<>>
    /\ \/ damage.lie > 0
       \/ damage.cut \in 1..Len(xz_compress(chunks[Len(chunks)]))

\* C10 as stated: the read or seek whose next() meets such a chunk fails.
C10_TruncatedChunkIsFatal ==
    (/\ pc = "open" /\ ShortChunk /\ last.op \in {"read", "seek"}
     /\ last.before.pos < Len(raw) /\ fpos = Len(raw)) => last.exc # ""

(***************************************************************************)
(* Further properties of the stream (SpecStream).                          *)
(***************************************************************************)
\* C11: seek(size, whence) with size < 0 or whence # 1 raises and leaves the
\* held buffer, the offset and the raw-input position exactly as they were (no
\* chunk was fetched), so that a read that follows returns what it would have
\* returned without the seek.
C11_FailedSeekChangesNothing ==
    (last.op = "seek" /\ (last.size < 0 \/ last.whence # 1)) =>
        /\ last.exc = "Exception"
        /\ Cursor = last.before
        /\ \A n \in 0..MaxReq : read(raw, Cursor, n) = read(raw, last.before, n)

\* an absolute seek of two bytes refused while a chunk is held at offset 1 and
\* another chunk waits in the raw input
C11_Witness ==
    /\ last.op = "seek" /\ last.whence = 0 /\ last.size = 2
    /\ last.exc = "Exception"
    /\ buffer # None /\ bufferpos = Some(1) /\ fpos < Len(raw)
    /\ Len(read(raw, Cursor, 2).data) = 2

(***************************************************************************)
(* Further properties of the walk (SpecWalk).                              *)
(***************************************************************************)
\* the payload of the entry of hdr is whole in the stream, and its bytes
PayloadWhole == PayloadStart + hdr[1].filesize <= Len(Logical)
PayloadBytes == SubSeq(Logical, PayloadStart + 1, PayloadStart + hdr[1].filesize)

\* the loop body has dispatched the symlink entry of hdr, whose payload the
\* stream holds in full (and the file system lets links be made)
LinkDispatched ==
    /\ InEntry /\ WellFormed /\ fsys = "ok" /\ hdr[1].type = 3 /\ PayloadWhole
    /\ wpc # "dispatch"

\* the sink operations performed for the entry of hdr (names are unique)
OpsOfEntry == {i \in 1..Len(sinks) : sinks[i].name = hdr[1].name}

\* the create-symlink operation with the payload bytes (ASCII) as target text
LinkOp ==
    [op |-> "link", name |-> hdr[1].name, data |-> PayloadBytes, size |-> hdr[1].filesize]

\* C12 as stated: for every symlink entry the create-symlink sink is invoked
\* with the S payload bytes as target text, no other sink is, and the stream is
\* left exactly S bytes after the name.
C12_LinkAlwaysCreated ==
    LinkDispatched =>
        /\ wpc \in {"count", "header"}
        /\ OpsOfEntry = {Len(sinks)}
        /\ sinks # <<>> /\ sinks[Len(sinks)] = LinkOp
        /\ Consumed(Cursor) = PayloadStart + hdr[1].filesize

\* C12 amended: for every symlink entry exactly S bytes are read and are the
\* target text shown in the listing, and the stream is left exactly S bytes
\* after the name; with an output directory the create-symlink sink is invoked
\* once with that text and no other sink is, without one no sink is invoked
\* for the entry at all.
C12_LinkCreatedWithOutput ==
    LinkDispatched =>
        /\ wpc \in {"count", "header"}
        /\ Consumed(Cursor) = PayloadStart + hdr[1].filesize
        /\ wpc = "count" => suffix = Some(PayloadBytes)
        /\ output => (OpsOfEntry = {Len(sinks)} /\ sinks[Len(sinks)] = LinkOp)
        /\ ~output => OpsOfEntry = {}

\* a link of size 5 with payload "a/b/c", read from one-byte chunks and handed
\* to the create-symlink sink as the text "a/b/c"
C12_Witness ==
    /\ LinkDispatched /\ output /\ wpc = "count"
    /\ hdr[1].filesize = 5
    /\ Len(chunks) > 30
    /\ sinks[Len(sinks)].op = "link"
    /\ sinks[Len(sinks)].data = <<97, 47, 98, 47, 99>>

\* the tally lines printed so far
TallyLines == {i \in 1..Len(out) : out[i].line = "tally"}

\* C13: an error ends the walk at once: a walk that raised takes no further
\* step (parses no header, performs no sink operation, prints nothing), and it
\* has printed no tally.  The tally is printed, once and last, exactly by the
\* walks that ended at a header read that found zero bytes: nothing consumed,
\* no buffer held and the raw input exhausted.
C13_ErrorStopsWalk ==
    /\ [](wpc # "idle" =>
            /\ (wpc = "raised") <=> (exc # "")
            /\ (wpc = "done") <=> (TallyLines # {})
            /\ TallyLines \subseteq {Len(out)}
            /\ wpc = "done" =>
                /\ hstart = Some(Consumed(Cursor))
                /\ buffer = None /\ fpos = Len(raw))
    /\ [][wpc \notin {"raised", "done"}]_vars

\* the create-symlink or store-file sink raised on the first entry of an
\* archive of two: one header parsed, no sink operation done, no tally
C13_Witness ==
    /\ wpc = "raised" /\ exc = "OSError"
    /\ Len(archive) = 2 /\ Len(headers) = 1
    /\ sinks = <<>> /\ TallyLines = {}

(***************************************************************************)
(* Construction and the life of a chunk (SpecStream).                      *)
(***************************************************************************)
Magic == <<112, 98, 122, 120>>

\* no chunk has been fetched: the raw input stands right after the container
\* header and no buffer is held
Unfetched == fpos = 12 /\ buffer = None

\* the last call asked for no byte, or was a seek that was refused
AskedNothing ==
    \/ last.op = "read" /\ last.size = 0
    \/ last.op = "seek" /\ (last.size <= 0 \/ last.whence # 1)

\* C14: construction reads the 12 bytes of the container header and no more,
\* fails when they are fewer or the tag is not 'pbzx', and fetches nothing:
\* the stream is open with no chunk header read and no buffer held, and it
\* stays so until a read or a seek asks for more than zero bytes, which
\* fetches the first chunk if there is one.
C14_ConstructionFetchesNothing ==
    /\ pc = "new" => fpos = 0
    /\ pc = "failed" =>
        /\ Len(raw) < 12 \/ SubSeq(raw, 1, 4) # Magic
        /\ buffer = None /\ fpos = Min(12, Len(raw))
    /\ pc = "open" =>
        /\ Len(raw) >= 12 /\ SubSeq(raw, 1, 4) = Magic
        /\ last.op = "init" => Unfetched
        /\ (last.op \in {"read", "seek"} /\ last.before.pos = 12
            /\ last.before.buffer = None) =>
              IF AskedNothing \/ Len(raw) = 12 THEN Unfetched ELSE fpos > 12

\* a stream just constructed on a file that holds chunks
C14_Witness ==
    /\ pc = "open" /\ last.op = "init"
    /\ Len(chunks) = MaxChunks /\ Len(chunks[1]) > 0 /\ damage = NoDamage
    /\ fpos = 12 /\ buffer = None

(***************************************************************************)
(* The reserved marker (SpecWalk).                                         *)
(***************************************************************************)
\* the first entry of the archive carries a marker other than 0x10
Marked == archive # <<>> /\ archive[1].unk1 # 16

\* the same archive with the marker 0x10, as a payload file in one chunk
Unmarked == [archive EXCEPT ![1].unk1 = 16]
UnmarkedFile == pbzx_file(ChunksOf(ArchiveBytes(Unmarked), 0, 0), NoDamage)

\* the printed lines without the NOTE lines
RECURSIVE WithoutNotes(_)
WithoutNotes(lines) ==
    IF lines = <<>> THEN <<>>
    ELSE IF lines[1].line = "NOTE" THEN WithoutNotes(Tail(lines))
    ELSE <<lines[1]>> \o WithoutNotes(Tail(lines))

NoteLines == {i \in 1..Len(out) : out[i].line = "NOTE"}

\* the walk does on the marked archive what processpayload does on the
\* unmarked one: same error or none, same tally, same sink operations, same
\* lines but for the NOTE lines, stream left at the same place
SameAsUnmarked ==
    LET same(r) ==
            /\ exc = r.exc /\ count = r.count /\ sinks = r.sinks
            /\ WithoutNotes(out) = r.out
            /\ fpos = r.c.pos /\ bufferpos = r.c.bufferpos
    IN  same(processpayload(UnmarkedFile, FreshCursor, output, list, fsys))

\* the loop body is through with the first entry
FirstEntryDone == InEntry /\ Len(headers) = 1 /\ wpc = "header"

\* C15 as stated: a header whose first byte is not 0x10 is logged as a warning
\* (in every run).
C15_MarkerAlwaysLogged ==
    (Marked /\ FirstEntryDone) => NoteLines # {}

\* C15 amended: a header whose first byte is not 0x10 is not fatal: the entry
\* is dispatched, its payload consumed and its kind tallied exactly as with the
\* marker 0x10, and the walk goes on and ends as it does then.  The deviation
\* is reported by one NOTE line after the entry's listing line when the listing
\* is asked for, and not at all when it is not.
C15_MarkerNotFatal ==
    /\ (Marked /\ Ended /\ trunc = 0 /\ WellFormed) => SameAsUnmarked
    /\ (Marked /\ FirstEntryDone) =>
        /\ exc = ""
        /\ list => NoteLines = {2} /\ out[1].line = "entry" /\ out[2].unk1 = archive[1].unk1
        /\ ~list => out = <<>>
    /\ ~Marked => NoteLines = {}

\* a listing walk that went through two entries, the first with marker 0x11,
\* and ended with the tally of both
C15_Witness ==
    /\ Marked /\ Ended /\ wpc = "done" /\ list /\ output
    /\ Len(headers) = 2 /\ count[1] + count[2] + count[3] = 2
    /\ NoteLines = {2}

(***************************************************************************)
(* The life of a chunk (SpecStream).                                       *)
(***************************************************************************)
\* where chunk j starts in the raw input
ChunkStart(j) == 12 + Len(pbzx_chunks(SubSeq(chunks, 1, j - 1), 0))

\* C16: whatever reads and seeks are made, the calls of next() that read from
\* the raw input were made with no buffer held and took the chunks in input
\* order, each once: the i-th such call started at the start of chunk i.  The
\* held buffer is the last chunk fetched.  The raw-input position never moves
\* backwards and the record of the calls only grows.
C16_ChunksFetchedOnceInOrder ==
    /\ [](pc = "open" =>
            /\ Len(fetched) <= Len(chunks)
            /\ \A i \in 1..Len(fetched) :
                fetched[i] = [pos |-> ChunkStart(i), held |-> FALSE]
            /\ (buffer # None /\ fetched # <<>>) => buffer[1] = chunks[Len(fetched)]
            /\ (buffer # None) => fetched # <<>>)
    /\ [][/\ fpos' >= fpos
          /\ pc = "open" =>
                /\ Len(fetched') >= Len(fetched)
                /\ SubSeq(fetched', 1, Len(fetched)) = fetched]_vars

\* a seek that went from inside the first chunk into the third: three chunks
\* fetched, the third still held
C16_Witness ==
    /\ pc = "open" /\ last.op = "seek" /\ damage = NoDamage
    /\ last.before.buffer # None /\ Len(last.before.log) = 1
    /\ Len(chunks) = 3 /\ Len(fetched) = 3
    /\ buffer # None /\ bufferpos = Some(1)

\* C17: between operations the stream holds no buffer or one chunk with the
\* offset inside it, 0 <= bufferpos < len(buffer): a buffer whose last byte
\* was consumed, or that has no byte at all, is not kept.
C17_CursorInvariant ==
    pc = "open" =>
        /\ Len(buffer) <= 1
        /\ buffer # None =>
            /\ bufferpos # None
            /\ 0 <= bufferpos[1] /\ bufferpos[1] < Len(buffer[1])

\* a read that took the last byte of a held two-byte chunk and stopped there,
\* with more chunks in the raw input: the buffer is gone
C17_Witness ==
    /\ pc = "open" /\ last.op = "read" /\ last.exc = "" /\ last.size = 1
    /\ last.before.buffer # None /\ last.before.bufferpos = Some(1)
    /\ Len(last.before.buffer[1]) = 2
    /\ buffer = None /\ fpos < Len(raw)

(***************************************************************************)
(* Listing against extracting (SpecWalk).                                  *)
(***************************************************************************)
\* the walk has ended as processpayload ends on the same payload file run the
\* other way (with an output directory if this walk has none, without one if
\* it has): same error or none, same headers at the same places of the
\* stream, same tally, same lines, stream left at the same place
SameAsOtherMode ==
    LET same(r) ==
            /\ exc = r.exc
            /\ headers = [i \in 1..Len(r.headers) |-> Consumed(r.headers[i])]
            /\ count = r.count
            /\ out = r.out
            /\ Consumed(Cursor) = Consumed(r.c)
    IN  same(processpayload(raw, FreshCursor, ~output, list, "ok"))

\* C18: for every valid archive the walk without an output directory (file
\* payloads discarded with seek) and the walk with one (file payloads copied
\* by savedata) parse the same headers at the same logical positions of the
\* stream and end with the same tally.
C18_ListingAndExtractingAgree ==
    (Ended /\ Valid /\ fsys = "ok") => SameAsOtherMode

\* an extracting walk over many chunks that stored a file larger than the copy
\* piece, went on to a second entry and ended with the tally
C18_Witness ==
    /\ Ended /\ Valid /\ fsys = "ok" /\ output /\ wpc = "done"
    /\ Len(chunks) > 30 /\ Len(headers) = 2 /\ headers[2] > 30 + CopyPiece
    /\ sinks[1].op = "store" /\ sinks[1].size > CopyPiece

(***************************************************************************)
(* Termination (SpecLive).                                                 *)
(***************************************************************************)
\* the chunks the last call fetched
FetchedByLast == Len(fetched) - Len(last.before.log)

\* the walk is over: it ended, or the stream could not be constructed
WalkOver == pc = "failed" \/ wpc \in {"done", "raised"}

\* C19: a call of read(n) or seek(n, 1) ends after at most one turn of its
\* loop for each byte asked for, one for each chunk it fetched (an empty chunk
\* costs a turn and yields nothing) and one that finds the input at its end.
\* The walk takes its loop body at most once for each header of the stream
\* (every step of the walk moves it to its next point, and each header read
\* either adds a header or ends the walk) and the walk always comes to its
\* end.
C19_Termination ==
    /\ [](last.op \in {"read", "seek"} =>
            /\ last.turns <= (IF last.size > 0 THEN last.size ELSE 0) + FetchedByLast + 1
            /\ FetchedByLast <= Len(chunks))
    /\ [](wpc # "idle" => Len(headers) <= Len(archive))
    /\ [][/\ Running => <<pc, wpc>>' # <<pc, wpc>>
          /\ (pc = "open" /\ wpc = "header") =>
                \/ wpc' \in {"done", "raised"} /\ headers' = headers
                \/ wpc' = "dispatch" /\ Len(headers') = Len(headers) + 1]_vars
    /\ Running ~> WalkOver

\* a read of one byte that took three turns: two chunks that decompress to
\* nothing were fetched before the chunk that holds the byte
C19_Witness ==
    /\ last.op = "read" /\ last.size = 1 /\ last.exc = "" /\ Len(last.data) = 1
    /\ last.turns = 3 /\ FetchedByLast = 3
    /\ chunks[1] = <<>> /\ chunks[2] = <<>>

====
